---- MODULE Spec2Model ----
(***************************************************************************)
(* League skinset finder: the champion-combination enumerator and the      *)
(* skinset pipeline of ResultsTable::view (components/results_table.rs),   *)
(* and the player list of App (components.rs).                             *)
(***************************************************************************)
EXTENDS Naturals, Integers, Sequences, FiniteSets, TLC

VARIABLES
    props_players,      \* ResultsTableProps.players: one champ list per player
    skinsets_excluded,  \* ResultsTableProps.skinsets_excluded
    view_status,        \* "none" before the first render, then "ok" or "panic"
    renders,            \* how often view has returned: 0, 1, or 2 for twice or more
    all_comps,          \* view: all_comps, the enumerator's return value
    displayed_comps,    \* view: displayed_comps, collected in order
    players,            \* App.players
    panic_site          \* "none", or the App::update arm that panicked

vars == <<props_players, skinsets_excluded, view_status, renders, all_comps,
          displayed_comps, players, panic_site>>

viewVars == <<props_players, skinsets_excluded, view_status, renders, all_comps, displayed_comps>>
appVars == <<players, panic_site>>

-----------------------------------------------------------------------------
(* Input domains *)

\* Largest roster drawn for ResultsTableProps.players.
MaxPlayers == 2


\* Number of distinct iteration orders drawn for one HashSet.
NumSeeds == 2

Champions == {"A", "B", "C"}

\* crate::lanes::Lane, in flag order; BitFlags<Lane>::iter() yields set flags in this order.
LaneOrder == <<"Top", "Jungle", "Mid", "Bottom", "Support">>

\* The lanes the drawn champ lists use.
Lanes == {"Top", "Jungle", "Mid"}

\* Largest number of (champion, lane) choices a drawn roster offers in total; it keeps
\* the set of rosters enumerable when MaxPlayers grows.
MaxChoices == Cardinality(Lanes) + 1

SkinsetOrder == <<"S1", "S2", "S3">>

ExcludedChoices == SUBSET {"S1", "S2"}

Range(s) == {s[i] : i \in 1..Len(s)}

RECURSIVE Flatten(_)
Flatten(ss) == IF Len(ss) = 0 THEN <<>> ELSE Head(ss) \o Flatten(Tail(ss))

\* One entry of PlayerRecord.champs: (champion, lanes).
ChampEntries == Champions \X (SUBSET Lanes \ {{}})

RECURSIVE ListChoices(_)
ListChoices(list) ==
    IF Len(list) = 0 THEN 0 ELSE Cardinality(Head(list)[2]) + ListChoices(Tail(list))

\* Champ lists of at most two entries; a champion may be listed twice.
AllChampLists ==
    {<<>>} \cup {<<e>> : e \in ChampEntries}
           \cup {<<e1, e2>> : e1 \in ChampEntries, e2 \in ChampEntries}

HasDuplicate(list) ==
    \E i, j \in 1..Len(list) : i < j /\ list[i][1] = list[j][1]

\* Champ lists that keep the data model's invariant: a champion appears at most once.
ValidChampLists == {l \in AllChampLists : ~HasDuplicate(l)}

RECURSIVE RostersOf(_, _, _)
RostersOf(lists, n, budget) ==
    IF n = 0 THEN {<<>>}
    ELSE UNION {{<<l>> \o r : r \in RostersOf(lists, n - 1, budget - ListChoices(l))} :
                l \in {x \in lists : ListChoices(x) <= budget}}

Rosters(lists) == UNION {RostersOf(lists, n, MaxChoices) : n \in 0..MaxPlayers}

-----------------------------------------------------------------------------
(* resolve_all_champ_combinations *)

\* lanes.iter()
lane_iter(lanes) == SelectSeq(LaneOrder, LAMBDA l : l \in lanes)

\* champ_list with a later entry for an already listed champion left out.
champ_list_first_entry(player) ==
    SelectSeq([i \in 1..Len(player) |->
                  IF \E j \in 1..(i - 1) : player[j][1] = player[i][1]
                  THEN <<>> ELSE player[i]],
              LAMBDA e : e # <<>>)

\* players[0].champs.as_slice()
champ_list(player) == player

\* contains_champ that finds nothing.
contains_champ_never(champ_combo, champ) == FALSE

contains_champ(champ_combo, champ) ==
    \E i \in 1..Len(champ_combo) : champ_combo[i][1] = champ

\* lane_covered that finds nothing.
lane_covered_never(champ_combo, lane) == FALSE

lane_covered(champ_combo, lane) ==
    \E i \in 1..Len(champ_combo) : champ_combo[i][2] = lane

\* new_combo that pushes at the back instead of inserting at index 0.
new_combo_push(champ_combo, champ, lane) == Append(champ_combo, <<champ, lane>>)

new_combo(champ_combo, champ, lane) == <<<<champ, lane>>>> \o champ_combo

\* The loop over others.iter() for one champ and one lane.
combos_for_lane(champ, lane, others) ==
    Flatten([k \in 1..Len(others) |->
        IF ~contains_champ(others[k], champ) /\ ~lane_covered(others[k], lane)
        THEN <<new_combo(others[k], champ, lane)>>
        ELSE <<>>])

\* combos_for_champ with the two loops exchanged: others outside, lanes inside.
combos_for_champ_others_first(champ, lanes, others) ==
    Flatten([k \in 1..Len(others) |->
        Flatten([j \in 1..Len(lane_iter(lanes)) |->
            combos_for_lane(champ, lane_iter(lanes)[j], <<others[k]>>)])])

\* The loop over lanes.iter() for one champ, with the loop over others inside it.
combos_for_champ(champ, lanes, others) ==
    Flatten([j \in 1..Len(lane_iter(lanes)) |->
        combos_for_lane(champ, lane_iter(lanes)[j], others)])

\* The one-player arm: every champ in every one of its lanes.
single_player(champs_list) ==
    Flatten([i \in 1..Len(champs_list) |->
        [j \in 1..Len(lane_iter(champs_list[i][2])) |->
            <<<<champs_list[i][1], lane_iter(champs_list[i][2])[j]>>>>]])

\* empty_slice that returns an empty list instead of panicking.
empty_slice_returns == [panicked |-> FALSE, combos |-> <<>>]

\* The arm for an empty slice: unreachable!() panics.
empty_slice == [panicked |-> TRUE, combos |-> <<>>]

RECURSIVE resolve_all_champ_combinations(_)
resolve_all_champ_combinations(ps) ==
    CASE Len(ps) = 0 -> empty_slice
      [] Len(ps) = 1 ->
            [panicked |-> FALSE, combos |-> single_player(champ_list(ps[1]))]
      [] OTHER ->
            LET others == resolve_all_champ_combinations(Tail(ps)).combos
                cl == champ_list(ps[1])
            IN [panicked |-> FALSE,
                combos |-> Flatten([i \in 1..Len(cl) |->
                               combos_for_champ(cl[i][1], cl[i][2], others)])]

-----------------------------------------------------------------------------
(* ResultsTable::view *)

\* Skinsets::skinsets of each champion; a champion that is no key has none.
GLOBAL_SKINSETS_MAP ==
    [c \in {"A", "B"} |-> IF c = "A" THEN {"S1", "S2"} ELSE {"S2", "S3"}]

champ_skinsets(champ) ==
    IF champ \in DOMAIN GLOBAL_SKINSETS_MAP THEN GLOBAL_SKINSETS_MAP[champ] ELSE {}

\* Skinsets::get_overlapping_skinsets: the skinsets every champion of the combo has.
RECURSIVE get_overlapping_skinsets(_)
get_overlapping_skinsets(champ_combo) ==
    IF Len(champ_combo) = 1 THEN champ_skinsets(champ_combo[1][1])
    ELSE champ_skinsets(champ_combo[1][1]) \cap get_overlapping_skinsets(Tail(champ_combo))

\* HashOrder that stops after the first element the set yields.
HashOrder_first_only(S, seed) ==
    IF S = {} THEN <<>>
    ELSE <<SelectSeq(SkinsetOrder, LAMBDA s : s \in S)[(seed % Cardinality(S)) + 1]>>

\* The order in which a HashSet yields its elements. std leaves it unspecified and
\* keys every HashSet's hasher differently, so it is drawn: seed picks, digit by
\* digit, which remaining element comes next. One seed is drawn per run of view,
\* so the sets of one run are ordered alike; runs differ from one another.
RECURSIVE HashOrder(_, _)
HashOrder(S, seed) ==
    IF S = {} THEN <<>>
    ELSE LET sorted == SelectSeq(SkinsetOrder, LAMBDA s : s \in S)
             first == sorted[(seed % Len(sorted)) + 1]
         IN <<first>> \o HashOrder(S \ {first}, seed \div Len(sorted))

\* final_skinsets that forgets the difference.
final_skinsets_keep_excluded(overlapping_skinsets, excluded, seed) ==
    HashOrder(overlapping_skinsets, seed)

\* overlapping_skinsets.difference(&props.skinsets_excluded).cloned().collect()
final_skinsets(overlapping_skinsets, excluded, seed) ==
    HashOrder(overlapping_skinsets \ excluded, seed)

\* .filter(|(_, skinsets)| !skinsets.is_empty())
has_skinsets(entry) == entry[2] # <<>>

\* The map and the filter over all_comps.
pipeline(comps, excluded, seed) ==
    SelectSeq([i \in 1..Len(comps) |->
                  <<comps[i], final_skinsets(get_overlapping_skinsets(comps[i]), excluded, seed)>>],
              has_skinsets)

View ==
    /\ view_status # "panic"
    /\ LET r == resolve_all_champ_combinations(props_players)
       IN IF r.panicked
          THEN /\ view_status' = "panic"
               /\ UNCHANGED <<renders, all_comps, displayed_comps>>
          ELSE /\ view_status' = "ok"
               /\ renders' = IF renders = 0 THEN 1 ELSE 2
               /\ all_comps' = r.combos
               /\ \E seed \in 0..(NumSeeds - 1) :
                     displayed_comps' = pipeline(r.combos, skinsets_excluded, seed)
    /\ UNCHANGED <<props_players, skinsets_excluded>>
    /\ UNCHANGED appVars

-----------------------------------------------------------------------------
(* App *)

\* Option<AttrValue>: None is <<>>, Some(n) is <<n>>.
PlayerRecord_new(exclude) == [exclude |-> exclude, name |-> <<>>, champs |-> <<>>]

\* The new_name strings and the indices that messages carry.
NewNames == {"", "n"}
MaxIndex == 6

\* Vec::remove
VecRemove(v, index) == SubSeq(v, 1, index) \o SubSeq(v, index + 2, Len(v))

\* App::create
AppInit ==
    /\ players = <<PlayerRecord_new(FALSE)>>
    /\ panic_site = "none"

PlayerNameUpdate(index, new_name) ==
    /\ panic_site = "none"
    /\ IF index < Len(players)
       THEN /\ players' = [players EXCEPT ![index + 1].name =
                               IF new_name = "" THEN <<>> ELSE <<new_name>>]
            /\ UNCHANGED panic_site
       ELSE /\ panic_site' = "PlayerNameUpdate"
            /\ UNCHANGED players
    /\ UNCHANGED viewVars

PlayerToggle ==
    /\ panic_site = "none"
    /\ panic_site' = "PlayerToggle"
    /\ UNCHANGED players
    /\ UNCHANGED viewVars

AddPlayer ==
    /\ panic_site = "none"
    /\ players' = IF Len(players) <= 5
                  THEN Append(players, PlayerRecord_new(FALSE))
                  ELSE players
    /\ UNCHANGED panic_site
    /\ UNCHANGED viewVars

RemovePlayer(player_index) ==
    /\ panic_site = "none"
    /\ IF Len(players) >= 1
       THEN IF player_index < Len(players)
            THEN /\ players' = VecRemove(players, player_index)
                 /\ UNCHANGED panic_site
            ELSE /\ panic_site' = "RemovePlayer"
                 /\ UNCHANGED players
       ELSE UNCHANGED appVars
    /\ UNCHANGED viewVars

PlayerChampListUpdate ==
    /\ panic_site = "none"
    /\ UNCHANGED appVars
    /\ UNCHANGED viewVars

-----------------------------------------------------------------------------
(* Specifications *)

ViewInit(lists) ==
    /\ props_players \in Rosters(lists)
    /\ skinsets_excluded \in ExcludedChoices
    /\ view_status = "none"
    /\ renders = 0
    /\ all_comps = <<>>
    /\ displayed_comps = <<>>

\* ResultsTable rendered with props whose champ lists name each champion at most once.
Init == ViewInit(ValidChampLists) /\ AppInit

Next == View

Spec == Init /\ [][Next]_vars

HasDuplicateRoster(ps) == \E i \in 1..Len(ps) : HasDuplicate(ps[i])

\* ResultsTable rendered with props in which some player lists a champion twice.
DupInit ==
    /\ props_players \in {r \in Rosters(AllChampLists) : HasDuplicateRoster(r)}
    /\ skinsets_excluded = {}
    /\ view_status = "none"
    /\ renders = 0
    /\ all_comps = <<>>
    /\ displayed_comps = <<>>
    /\ AppInit

SpecDup == DupInit /\ [][Next]_vars

\* The App component alone, fed any sequence of messages.
AppOnlyInit ==
    /\ AppInit
    /\ props_players = <<>>
    /\ skinsets_excluded = {}
    /\ view_status = "none"
    /\ renders = 0
    /\ all_comps = <<>>
    /\ displayed_comps = <<>>

AppNext ==
    \/ \E index \in 0..MaxIndex, new_name \in NewNames : PlayerNameUpdate(index, new_name)
    \/ PlayerToggle
    \/ AddPlayer
    \/ \E player_index \in 0..MaxIndex : RemovePlayer(player_index)
    \/ PlayerChampListUpdate

SpecApp == AppOnlyInit /\ [][AppNext]_vars

-----------------------------------------------------------------------------
(* Reference definitions for the properties *)

\* The (champion, lane) pairs one champ list offers.
Choices(list) == UNION {{<<list[i][1], l>> : l \in list[i][2]} : i \in 1..Len(list)}

\* One choice per player, in roster order, with no uniqueness asked.
RECURSIVE AllPicks(_)
AllPicks(ps) ==
    IF Len(ps) = 0 THEN {<<>>}
    ELSE {<<x>> \o t : x \in Choices(Head(ps)), t \in AllPicks(Tail(ps))}

PairwiseDistinct(a) ==
    \A i, j \in 1..Len(a) : i < j => a[i][1] # a[j][1] /\ a[i][2] # a[j][2]

BruteForce(ps) == {a \in AllPicks(ps) : PairwiseDistinct(a)}

\* The two-player collision roster and the output pinned for it.
FixtureRoster ==
    << << <<"A", {"Top"}>>, <<"B", {"Jungle"}>> >>,
       << <<"A", {"Top"}>>, <<"C", {"Jungle"}>> >> >>

FixtureOutput ==
    << << <<"A", "Top">>, <<"C", "Jungle">> >>,
       << <<"B", "Jungle">>, <<"A", "Top">> >> >>

\* The (entry index, lane) picks of one champ list, and one pick per player.
EntryChoices(list) == UNION {{<<i, l>> : l \in list[i][2]} : i \in 1..Len(list)}

RECURSIVE EntryPicks(_)
EntryPicks(ps) ==
    IF Len(ps) = 0 THEN {<<>>}
    ELSE {<<x>> \o t : x \in EntryChoices(Head(ps)), t \in EntryPicks(Tail(ps))}

\* The picks whose champions and lanes are pairwise distinct.
DistinctEntryPicks(ps) ==
    {e \in EntryPicks(ps) :
        PairwiseDistinct([i \in 1..Len(ps) |-> <<ps[i][e[i][1]][1], e[i][2]>>])}

IndexIn(seq, x) == CHOOSE i \in 1..Len(seq) : seq[i] = x

Rendered == view_status # "none"

-----------------------------------------------------------------------------
(* Properties *)

\* C1: every assignment the enumerator returns has its champions pairwise distinct
\* and its lanes pairwise distinct.
C1_Validity ==
    view_status = "ok" => \A k \in 1..Len(all_comps) : PairwiseDistinct(all_comps[k])

\* C1 witness: a roster of two players for which assignments are returned and at
\* least one pairing was discarded for a collision.
C1_Witness ==
    /\ view_status = "ok"
    /\ Len(props_players) >= 2
    /\ Len(all_comps) >= 1
    /\ Len(all_comps) < Cardinality(AllPicks(props_players))

\* C2: the enumerator returns exactly the assignments a brute-force enumeration of
\* one (champion, lane) choice per player, filtered for champion and lane
\* uniqueness, produces, each once; for the collision fixture that is
\* [(A,Top),(C,Jungle)] and [(B,Jungle),(A,Top)].
C2_Exhaustive ==
    view_status = "ok" =>
        /\ Range(all_comps) = BruteForce(props_players)
        /\ Len(all_comps) = Cardinality(BruteForce(props_players))
        /\ props_players = FixtureRoster => all_comps = FixtureOutput

\* C2 witness: the collision fixture has been enumerated.
C2_Witness == view_status = "ok" /\ props_players = FixtureRoster

\* C3: every returned assignment has one entry per player and entry i is a
\* (champion, lane) pair of player i's champ list.
C3_RosterOrder ==
    view_status = "ok" =>
        \A k \in 1..Len(all_comps) :
            /\ Len(all_comps[k]) = Len(props_players)
            /\ \A i \in 1..Len(props_players) :
                  \E e \in 1..Len(props_players[i]) :
                      /\ props_players[i][e][1] = all_comps[k][i][1]
                      /\ all_comps[k][i][2] \in props_players[i][e][2]

\* C3 witness: assignments returned for two players whose champ lists differ.
C3_Witness ==
    /\ view_status = "ok"
    /\ Len(props_players) >= 2
    /\ Len(all_comps) >= 1
    /\ Choices(props_players[1]) \cap Choices(props_players[2]) = {}

\* C4 as claimed: an empty roster yields the named failure InvalidInput to the caller.
C4_InvalidInput ==
    (Rendered /\ props_players = <<>>) => view_status = "InvalidInput"

\* C4 amended: an empty roster makes the enumerator panic, which ends view with it;
\* nothing is returned, neither an empty list nor any rows.
C4_EmptyRosterPanics ==
    (Rendered /\ props_players = <<>>) =>
        /\ view_status = "panic"
        /\ all_comps = <<>>
        /\ displayed_comps = <<>>

\* C4 witness: view has run on an empty roster.
C4_Witness == Rendered /\ props_players = <<>>

\* C5 as claimed: a champ list naming a champion twice is rejected with InvalidInput.
C5_DuplicateRejected ==
    (Rendered /\ HasDuplicateRoster(props_players)) => view_status = "InvalidInput"

\* C5 amended: a champ list naming a champion twice is not rejected; every entry is
\* a candidate of its own, so one assignment is returned per pick of an entry and
\* a lane for each player whose champions and lanes are pairwise distinct.
C5_DuplicateEnumerated ==
    (Rendered /\ HasDuplicateRoster(props_players)) =>
        /\ view_status = "ok"
        /\ Len(all_comps) = Cardinality(DistinctEntryPicks(props_players))
        /\ Range(all_comps) = BruteForce(props_players)

\* C5 witness: a roster with a twice-listed champion was enumerated and an
\* assignment was returned more than once.
C5_Witness ==
    /\ view_status = "ok"
    /\ HasDuplicateRoster(props_players)
    /\ Len(all_comps) > Cardinality(Range(all_comps))

\* C6: the rows view shows are the enumerated assignments whose overlapping
\* skinsets minus the excluded ones is non-empty, in enumeration order, each with
\* that difference: no row is empty or holds an excluded skinset, none is dropped.
C6_Pipeline ==
    view_status = "ok" =>
        LET rest(c) == get_overlapping_skinsets(c) \ skinsets_excluded
            kept == SelectSeq(all_comps, LAMBDA c : rest(c) # {})
        IN /\ Len(displayed_comps) = Len(kept)
           /\ \A i \in 1..Len(displayed_comps) :
                 /\ displayed_comps[i][1] = kept[i]
                 /\ Range(displayed_comps[i][2]) = rest(kept[i])
                 /\ Len(displayed_comps[i][2]) = Cardinality(rest(kept[i]))
                 /\ displayed_comps[i][2] # <<>>
                 /\ Range(displayed_comps[i][2]) \cap skinsets_excluded = {}

\* C6 witness: with a skinset excluded, one assignment is shown with the exclusion
\* having removed a skinset from it, and another assignment is dropped.
C6_Witness ==
    /\ view_status = "ok"
    /\ Len(displayed_comps) >= 1
    /\ Len(displayed_comps) < Len(all_comps)
    /\ \E i \in 1..Len(displayed_comps) :
          get_overlapping_skinsets(displayed_comps[i][1]) \cap skinsets_excluded # {}

\* C7: the output is ordered by the first player's candidates in input order, then
\* the candidate's lanes in enumeration order, then the tail solutions in the
\* order the recursive call emitted them.
C7_Order ==
    view_status = "ok" =>
        LET tails == IF Len(props_players) >= 2
                     THEN resolve_all_champ_combinations(Tail(props_players)).combos
                     ELSE <<>>
            cand(a) == IndexIn([e \in 1..Len(props_players[1]) |-> props_players[1][e][1]],
                               a[1][1])
            lane(a) == IndexIn(LaneOrder, a[1][2])
            tail(a) == IF Len(props_players) >= 2 THEN IndexIn(tails, Tail(a)) ELSE 0
        IN \A i, j \in 1..Len(all_comps) :
              i < j =>
                  LET a == all_comps[i]
                      b == all_comps[j]
                  IN \/ cand(a) < cand(b)
                     \/ cand(a) = cand(b) /\ lane(a) < lane(b)
                     \/ cand(a) = cand(b) /\ lane(a) = lane(b) /\ tail(a) < tail(b)

\* C7 witness: two players; one candidate of the first is returned in two lanes,
\* each with two tail solutions.
C7_Witness ==
    /\ view_status = "ok"
    /\ Len(props_players) >= 2
    /\ \E i, j, k, l \in 1..Len(all_comps) :
          /\ all_comps[i][1][1] = all_comps[k][1][1]
          /\ all_comps[i][1] = all_comps[j][1] /\ Tail(all_comps[i]) # Tail(all_comps[j])
          /\ all_comps[k][1] = all_comps[l][1] /\ Tail(all_comps[k]) # Tail(all_comps[l])
          /\ all_comps[i][1][2] # all_comps[k][1][2]

C9_AtMostFive == Len(players) <= 5

\* C10 as claimed: the players list is never empty and no RemovePlayer that update
\* acts on indexes out of bounds.
C10_NeverEmpty == Len(players) >= 1 /\ panic_site # "RemovePlayer"

====
